---- MODULE Spec2Model ----
(***************************************************************************)
(* Model of the pthread-based channel library of cogcity.c (the Plan 9     *)
(* compatibility layer): chancreate, chansend, chanrecv, channbsend,       *)
(* channbrecv, chanclose.                                                  *)
(*                                                                         *)
(* Every channel field is read and written under the channel's mutex, so   *)
(* a thread's step is one of: acquire the mutex (or fail a trylock), or    *)
(* run from the point where it holds the mutex to the point where it       *)
(* releases it (an unlock or a pthread_cond_wait).  A thread woken from a  *)
(* condition wait has to take the mutex again before it continues.         *)
(***************************************************************************)
EXTENDS Integers, Sequences, FiniteSets, TLC

(* ---- bounds of the model ---- *)
NThreads == 3
MaxCalls == 4
MaxLiveCalls == 3
MaxCap == 2
NSenders == 2
SendsEach == 2
MaxAltCalls == 3
NCreators == 2

Threads == 1..NThreads
Chans == {"A"}
AllChans == {"A", "B"}

(* Senders and the single receiver of the T x M scenario. *)
Senders == 1..NSenders
Receiver == NSenders + 1

(* A value is the pair <<sender, serial>>: every send of the model carries *)
(* a value no other send carries.  Uninit stands for the bytes of a slot   *)
(* that malloc returned and no send has written; it differs from every     *)
(* value a thread sends.                                                   *)
Uninit == <<0, 0>>

VARIABLES
    bufsize,    \* Channel.bufsize
    buf,        \* Channel.buf : slot index -> element
    nbuf,       \* Channel.nbuf
    off,        \* Channel.off
    closed,     \* Channel.closed
    lock,       \* Channel.lock : 0 when free, else the owning thread
    notempty,   \* Channel.notempty : threads blocked in pthread_cond_wait
    notfull,    \* Channel.notfull  : threads blocked in pthread_cond_wait
    pc,         \* position of each thread inside the operation it runs
    op,         \* the operation a thread runs or last ran
    ch,         \* the channel of that operation
    val,        \* the element behind the thread's v pointer
    ret,        \* the value the last operation returned
    budget,     \* calls the thread may still start
    calls,      \* calls all threads together may still start
    sent,       \* history: elements in the order they were enqueued
    recvd,      \* history: elements in the order they were dequeued
    atclose,    \* history: the buffered elements when the channel was first closed
    nclose,     \* history: Len(recvd) when the channel was first closed, -1 while open
    mark,       \* history: Len(recvd) when a blocking send last found the channel full
    alts,       \* the Alt array a thread passed to alt, CHANEND entry included
    altpc,      \* position of a thread inside alt, "none" outside
    alti,       \* the loop index i of alt
    altret,     \* the value the last alt returned
    snap,       \* history: the channels as they were when alt was called
    busy,       \* history: the entries whose trylock failed in the first loop of alt
    create,     \* each thread's call of chancreate: arguments, heap blocks, result
    spawn       \* each thread's life: who created it, how often its fn was started

vars == <<bufsize, buf, nbuf, off, closed, lock, notempty, notfull,
          pc, op, ch, val, ret, budget, calls, sent, recvd, atclose, nclose, mark,
          alts, altpc, alti, altret, snap, busy, create, spawn>>

chanvars == <<buf, nbuf, off, closed>>
histvars == <<sent, recvd, atclose, nclose>>
altvars == <<alts, altpc, alti, altret, snap, busy>>
procvars == <<create, spawn>>

(* ---- the buffer ---- *)

\* the buffered elements, oldest first
Queue(c) == [i \in 1..nbuf[c] |-> buf[c][(off[c] + i - 1) % bufsize[c]]]

\* chansend/channbsend: dst = buf + ((off + nbuf) % bufsize) * elemsize
SendSlotNoOff(c) == nbuf[c] % bufsize[c]
SendSlot(c) == (off[c] + nbuf[c]) % bufsize[c]

\* chanrecv/channbrecv: off = (off + 1) % bufsize
RecvOffStuck(c) == off[c]
RecvOff(c) == (off[c] + 1) % bufsize[c]

\* chansend: while (c->nbuf >= c->bufsize && !c->closed)
SendMustWaitOffByOne(c) == nbuf[c] > bufsize[c] /\ ~closed[c]
SendMustWait(c) == nbuf[c] >= bufsize[c] /\ ~closed[c]

\* chansend: if (c->closed), before and after the wait loop
SendClosedIgnored(c) == FALSE
SendClosed(c) == closed[c]

\* chanrecv: while (c->nbuf <= 0 && !c->closed)
RecvMustWaitOnClosed(c) == nbuf[c] <= 0
RecvMustWaitNever(c) == FALSE
RecvMustWait(c) == nbuf[c] <= 0 /\ ~closed[c]

\* chanrecv: if (c->nbuf <= 0 && c->closed)
RecvClosedEager(c) == closed[c]
RecvClosed(c) == nbuf[c] <= 0 /\ closed[c]

\* channbsend: if (c->closed || c->nbuf >= c->bufsize)
NbSendNotReadyNoCap(c) == closed[c]
NbSendNotReady(c) == closed[c] \/ nbuf[c] >= bufsize[c]

\* channbrecv: if (c->nbuf <= 0)
NbRecvNotReadyClosed(c) == closed[c] \/ nbuf[c] <= 0
NbRecvNotReadyOffByOne(c) == nbuf[c] <= 1
NbRecvNotReady(c) == nbuf[c] <= 0

\* chanclose: c->closed = 1
CloseFlagToggle(c) == ~closed[c]
CloseFlag(c) == TRUE

(* ---- pthread condition variables ---- *)

\* pthread_cond_signal: one waiting thread is woken when there is one
SignalLost(ws) == {{}}
Signal(ws) == IF ws = {} THEN {{}} ELSE {{w} : w \in ws}

\* pthread_cond_broadcast: every waiting thread is woken
BroadcastNone(ws) == {}
Broadcast(ws) == ws

\* where a thread continues once pthread_cond_wait has been left:
\* it first has to take the mutex again
Woken(p) == IF p = "sendw" THEN "sendr" ELSE IF p = "recvw" THEN "recvr" ELSE p

(* ---- initial state: chancreate ---- *)

\* chancreate(elemsize, bufsize): nbuf = 0, off = 0, closed = 0, buf = malloc(...),
\* mutex and both condition variables initialised
\* channel A is created with a capacity of capsA, channel B with one of capsB
chancreate(capsA, capsB) ==
    /\ bufsize \in {[c \in AllChans |-> IF c = "A" THEN a ELSE b] :
                       a \in capsA, b \in capsB}
    /\ buf = [c \in AllChans |-> [i \in 0..(bufsize[c] - 1) |-> Uninit]]
    /\ nbuf = [c \in AllChans |-> 0]
    /\ off = [c \in AllChans |-> 0]
    /\ closed = [c \in AllChans |-> FALSE]
    /\ lock = [c \in AllChans |-> 0]
    /\ notempty = [c \in AllChans |-> {}]
    /\ notfull = [c \in AllChans |-> {}]

(* ---- the threads that call chancreate, and the life of a thread ---- *)

Creators == 1..NCreators

\* a thread that has not called chancreate
NoCreate ==
    [pc |-> "none", elemsize |-> 0, bufsize |-> 0, c |-> "unset", fields |-> <<>>,
     cbuf |-> "unset", ret |-> "none"]

\* a thread that exists from the start: no threadcreate made it
Running ==
    [state |-> "running", by |-> 0, started |-> 0, targ |-> "none", detached |-> TRUE]

\* nobody calls chancreate or threadcreate: the channels and the threads exist
ProcIdle ==
    /\ create = [t \in Creators |-> NoCreate]
    /\ spawn = [t \in Threads |-> Running]

ThreadsIdle ==
    /\ pc = [t \in Threads |-> "idle"]
    /\ op = [t \in Threads |-> "none"]
    /\ ch = [t \in Threads |-> "A"]
    /\ val = [t \in Threads |-> Uninit]
    /\ ret = [t \in Threads |-> 0]
    /\ mark = [t \in Threads |-> -1]
    /\ alts = [t \in Threads |-> <<>>]
    /\ altpc = [t \in Threads |-> "none"]
    /\ alti = [t \in Threads |-> 0]
    /\ altret = [t \in Threads |-> 0]
    /\ snap = [t \in Threads |-> <<>>]
    /\ busy = [t \in Threads |-> {}]

HistInit ==
    /\ sent = [c \in AllChans |-> <<>>]
    /\ recvd = [c \in AllChans |-> <<>>]
    /\ atclose = [c \in AllChans |-> <<>>]
    /\ nclose = [c \in AllChans |-> -1]

\* the threads may start n calls between them
InitCalls(n) ==
    /\ chancreate(1..MaxCap, {1})
    /\ ThreadsIdle
    /\ HistInit
    /\ ProcIdle
    /\ budget = [t \in Threads |-> n]
    /\ calls = n

Init == InitCalls(MaxCalls)

(* ---- steps shared by the operations ---- *)

\* the thread may start another call
CanCall(t) == budget[t] > 0 /\ calls > 0 /\ altpc[t] = "none"

\* a call starts: the thread names the operation, the channel and the element
Start(t, o, c, v) ==
    /\ op' = [op EXCEPT ![t] = o]
    /\ ch' = [ch EXCEPT ![t] = c]
    /\ val' = [val EXCEPT ![t] = v]
    /\ budget' = [budget EXCEPT ![t] = @ - 1]
    /\ calls' = calls - 1
    /\ mark' = [mark EXCEPT ![t] = -1]

\* pthread_mutex_lock returns: the mutex was free and the caller owns it
LockAnyway(t, c) == lock' = [lock EXCEPT ![c] = t]
Lock(t, c) ==
    /\ lock[c] = 0
    /\ lock' = [lock EXCEPT ![c] = t]

\* pthread_mutex_unlock
Unlock(c) == lock' = [lock EXCEPT ![c] = 0]

\* the element the next send of thread t carries
NextVal(t) == <<t, budget[t]>>

\* pc after thread t moved to p and the threads of W were woken
Moved(t, p, W) ==
    [u \in Threads |-> IF u = t THEN p ELSE IF u \in W THEN Woken(pc[u]) ELSE pc[u]]

\* chancreate: buf = malloc(...) if (bufsize > 0), else buf = nil
HasBuf(c) == bufsize[c] > 0

\* if (c->buf) memcpy(dst, v, elemsize); nbuf++; pthread_cond_signal(&notempty);
\* unlock; return 1
Enqueue(t, c) ==
    /\ buf' = IF HasBuf(c) THEN [buf EXCEPT ![c][SendSlot(c)] = val[t]] ELSE buf
    /\ nbuf' = [nbuf EXCEPT ![c] = @ + 1]
    /\ sent' = [sent EXCEPT ![c] = Append(@, val[t])]
    /\ \E W \in Signal(notempty[c]) :
          /\ notempty' = [notempty EXCEPT ![c] = @ \ W]
          /\ pc' = Moved(t, "idle", W)
    /\ Unlock(c)
    /\ ret' = [ret EXCEPT ![t] = 1]
    /\ UNCHANGED <<altvars, procvars, bufsize, off, closed, notfull, op, ch, val, budget, calls, recvd,
                   atclose, nclose>>

\* if (c->buf) memcpy(v, src, elemsize); off = (off + 1) % bufsize; nbuf--;
\* pthread_cond_signal(&notfull); unlock; return 1
Dequeue(t, c) ==
    /\ val' = [val EXCEPT ![t] = IF HasBuf(c) THEN buf[c][off[c]] ELSE @]
    /\ off' = [off EXCEPT ![c] = RecvOff(c)]
    /\ nbuf' = [nbuf EXCEPT ![c] = @ - 1]
    /\ recvd' = [recvd EXCEPT ![c] = Append(@, val'[t])]
    /\ \E W \in Signal(notfull[c]) :
          /\ notfull' = [notfull EXCEPT ![c] = @ \ W]
          /\ pc' = Moved(t, "idle", W)
    /\ Unlock(c)
    /\ ret' = [ret EXCEPT ![t] = 1]
    /\ UNCHANGED <<altvars, procvars, bufsize, buf, closed, notempty, op, ch, budget, calls, sent,
                   atclose, nclose, mark>>

\* a failing path that counts the element before it gives up
FailCounted(t, c, r) ==
    /\ Unlock(c)
    /\ pc' = [pc EXCEPT ![t] = "idle"]
    /\ ret' = [ret EXCEPT ![t] = r]
    /\ nbuf' = [nbuf EXCEPT ![c] = IF r = 0 /\ @ < bufsize[c] THEN @ + 1 ELSE @]
    /\ UNCHANGED <<altvars, procvars, bufsize, buf, off, closed, notempty, notfull, op, ch, val,
                   budget, calls, histvars>>

\* a failing path that returns without the unlock
FailLocked(t, c, r) ==
    /\ pc' = [pc EXCEPT ![t] = "idle"]
    /\ ret' = [ret EXCEPT ![t] = r]
    /\ UNCHANGED <<altvars, procvars, bufsize, chanvars, lock, notempty, notfull, op, ch, val,
                   budget, calls, histvars>>

\* unlock; return r  (no field of the channel is written)
Fail(t, c, r) ==
    /\ Unlock(c)
    /\ pc' = [pc EXCEPT ![t] = "idle"]
    /\ ret' = [ret EXCEPT ![t] = r]
    /\ UNCHANGED <<altvars, procvars, bufsize, chanvars, notempty, notfull, op, ch, val, budget, calls,
                   histvars>>

(* ---- chansend ---- *)

\* pthread_mutex_lock(&c->lock)
chansend_call(t, c) ==
    /\ pc[t] = "idle" /\ CanCall(t)
    /\ Lock(t, c)
    /\ Start(t, "send", c, NextVal(t))
    /\ pc' = [pc EXCEPT ![t] = "send"]
    /\ UNCHANGED <<altvars, procvars, bufsize, chanvars, notempty, notfull, ret, histvars>>

\* from the wait loop on: while (full && !closed) wait; if (closed) return -1; enqueue
SendLoop(t, c) ==
    IF SendMustWait(c)
    THEN /\ notfull' = [notfull EXCEPT ![c] = @ \cup {t}]
         /\ Unlock(c)
         /\ pc' = [pc EXCEPT ![t] = "sendw"]
         /\ UNCHANGED <<altvars, procvars, bufsize, chanvars, notempty, op, ch, val, ret, budget, calls,
                        histvars>>
    ELSE IF SendClosed(c)
    THEN Fail(t, c, -1)
    ELSE Enqueue(t, c)

\* history: the blocking send of t looked at the channel and it held bufsize
\* elements and was open
MarkFull(t, c) ==
    mark' = [mark EXCEPT ![t] =
                IF nbuf[c] >= bufsize[c] /\ ~closed[c] THEN Len(recvd[c]) ELSE @]

\* the caller holds the mutex at the first closed check
chansend_body(t) ==
    /\ pc[t] = "send"
    /\ MarkFull(t, ch[t])
    /\ IF SendClosed(ch[t])
       THEN Fail(t, ch[t], -1)
       ELSE SendLoop(t, ch[t])

\* pthread_cond_wait returns once the woken thread owns the mutex again
chansend_relock(t) ==
    /\ pc[t] = "sendr"
    /\ Lock(t, ch[t])
    /\ pc' = [pc EXCEPT ![t] = "sendl"]
    /\ UNCHANGED <<altvars, procvars, bufsize, chanvars, notempty, notfull, op, ch, val, ret, budget, calls,
                   histvars, mark>>

\* back at the loop test after a wake-up
chansend_loop(t) ==
    /\ pc[t] = "sendl"
    /\ MarkFull(t, ch[t])
    /\ SendLoop(t, ch[t])

(* ---- chanrecv ---- *)

chanrecv_call(t, c) ==
    /\ pc[t] = "idle" /\ CanCall(t)
    /\ Lock(t, c)
    /\ Start(t, "recv", c, val[t])
    /\ pc' = [pc EXCEPT ![t] = "recv"]
    /\ UNCHANGED <<altvars, procvars, bufsize, chanvars, notempty, notfull, ret, histvars>>

\* the caller holds the mutex at the loop test
chanrecv_body(t) ==
    /\ pc[t] = "recv"
    /\ LET c == ch[t] IN
       IF RecvMustWait(c)
       THEN /\ notempty' = [notempty EXCEPT ![c] = @ \cup {t}]
            /\ Unlock(c)
            /\ pc' = [pc EXCEPT ![t] = "recvw"]
            /\ UNCHANGED <<altvars, procvars, bufsize, chanvars, notfull, op, ch, val, ret, budget, calls,
                           histvars, mark>>
       ELSE IF RecvClosed(c)
       THEN Fail(t, c, -1) /\ UNCHANGED mark
       ELSE Dequeue(t, c)

chanrecv_relock(t) ==
    /\ pc[t] = "recvr"
    /\ Lock(t, ch[t])
    /\ pc' = [pc EXCEPT ![t] = "recv"]
    /\ UNCHANGED <<altvars, procvars, bufsize, chanvars, notempty, notfull, op, ch, val, ret, budget, calls,
                   histvars, mark>>

(* ---- channbsend, channbrecv ---- *)

\* pthread_mutex_trylock: the mutex is taken when free, else the call returns 0
TryLockWaits(t, c, o, v, p) ==
    /\ pc[t] = "idle" /\ CanCall(t)
    /\ Start(t, o, c, v)
    /\ Lock(t, c)
    /\ pc' = [pc EXCEPT ![t] = p]
    /\ UNCHANGED <<altvars, procvars, bufsize, chanvars, notempty, notfull, histvars, ret>>

TryLockUnchecked(t, c, o, v, p) ==
    /\ pc[t] = "idle" /\ CanCall(t)
    /\ Start(t, o, c, v)
    /\ lock' = [lock EXCEPT ![c] = t]
    /\ pc' = [pc EXCEPT ![t] = p]
    /\ UNCHANGED <<altvars, procvars, bufsize, chanvars, notempty, notfull, histvars, ret>>

TryLock(t, c, o, v, p) ==
    /\ pc[t] = "idle" /\ CanCall(t)
    /\ Start(t, o, c, v)
    /\ IF lock[c] = 0
       THEN /\ lock' = [lock EXCEPT ![c] = t]
            /\ pc' = [pc EXCEPT ![t] = p]
            /\ UNCHANGED ret
       ELSE /\ ret' = [ret EXCEPT ![t] = 0]
            /\ UNCHANGED <<lock, pc>>
    /\ UNCHANGED <<altvars, procvars, bufsize, chanvars, notempty, notfull, histvars>>

channbsend_call(t, c) == TryLock(t, c, "nbsend", NextVal(t), "nbsend")

channbsend_body(t) ==
    /\ pc[t] = "nbsend"
    /\ IF NbSendNotReady(ch[t])
       THEN Fail(t, ch[t], 0) /\ UNCHANGED mark
       ELSE Enqueue(t, ch[t]) /\ UNCHANGED mark

channbrecv_call(t, c) == TryLock(t, c, "nbrecv", val[t], "nbrecv")

channbrecv_body(t) ==
    /\ pc[t] = "nbrecv"
    /\ IF NbRecvNotReady(ch[t])
       THEN Fail(t, ch[t], 0) /\ UNCHANGED mark
       ELSE Dequeue(t, ch[t])

(* ---- chanclose ---- *)

chanclose_call(t, c) ==
    /\ pc[t] = "idle" /\ CanCall(t)
    /\ Lock(t, c)
    /\ Start(t, "close", c, val[t])
    /\ pc' = [pc EXCEPT ![t] = "close"]
    /\ UNCHANGED <<altvars, procvars, bufsize, chanvars, notempty, notfull, ret, histvars>>

\* closed = 1; broadcast notempty; broadcast notfull; unlock
chanclose_body(t) ==
    /\ pc[t] = "close"
    /\ LET c == ch[t]
           W == Broadcast(notempty[c]) \cup Broadcast(notfull[c]) IN
       /\ closed' = [closed EXCEPT ![c] = CloseFlag(c)]
       /\ notempty' = [notempty EXCEPT ![c] = @ \ W]
       /\ notfull' = [notfull EXCEPT ![c] = @ \ W]
       /\ pc' = Moved(t, "idle", W)
       /\ Unlock(c)
       /\ atclose' = [atclose EXCEPT ![c] = IF nclose[c] < 0 THEN Queue(c) ELSE @]
       /\ nclose' = [nclose EXCEPT ![c] = IF @ < 0 THEN Len(recvd[c]) ELSE @]
    /\ UNCHANGED <<altvars, procvars, bufsize, buf, nbuf, off, op, ch, val, ret, budget, calls, sent, recvd,
                   mark>>

(* ---- spurious wake-up ---- *)

\* pthread_cond_wait may return without a signal or a broadcast
SpuriousWakeup(t) ==
    /\ pc[t] \in {"sendw", "recvw"}
    /\ notfull' = [notfull EXCEPT ![ch[t]] = @ \ {t}]
    /\ notempty' = [notempty EXCEPT ![ch[t]] = @ \ {t}]
    /\ pc' = [pc EXCEPT ![t] = Woken(pc[t])]
    /\ UNCHANGED <<altvars, procvars, bufsize, chanvars, lock, op, ch, val, ret, budget, calls, histvars, mark>>

(* ---- chanlen ---- *)

chanlen_call(t, c) ==
    /\ pc[t] = "idle" /\ CanCall(t)
    /\ Lock(t, c)
    /\ Start(t, "len", c, val[t])
    /\ pc' = [pc EXCEPT ![t] = "len"]
    /\ UNCHANGED <<altvars, procvars, bufsize, chanvars, notempty, notfull, ret, histvars>>

\* len = c->nbuf; unlock; return len
chanlen_body(t) ==
    /\ pc[t] = "len"
    /\ Unlock(ch[t])
    /\ pc' = [pc EXCEPT ![t] = "idle"]
    /\ ret' = [ret EXCEPT ![t] = nbuf[ch[t]]]
    /\ UNCHANGED <<altvars, procvars, bufsize, chanvars, notempty, notfull, op, ch, val, budget,
                   calls, histvars, mark>>

(* ---- alt ---- *)

\* enum { CHANRCV = 1, CHANSND, CHANNOP, CHANNOBLK, CHANEND }
CHANRCV == 1
CHANSND == 2
CHANNOP == 3
CHANNOBLK == 4
CHANEND == 5

\* the Alt array of a call: one entry per operation, then the CHANEND entry
AltList(es) == Append(es, [c |-> "nil", op |-> CHANEND])

\* alts[i] of the call thread t is in
Entry(t, i) == alts[t][i + 1]

\* first loop: channbrecv for CHANRCV, channbsend for CHANSND
ScanOpSwapped(o) == IF o = CHANRCV THEN "nbsend" ELSE "nbrecv"
ScanOp(o) == IF o = CHANRCV THEN "nbrecv" ELSE "nbsend"

\* first loop: if (channbrecv(...)) return i; if (channbsend(...)) return i
ScanReadyNever(r) == FALSE
ScanReady(r) == r # 0

\* first loop: if (alts[i].op == CHANNOBLK) return i;
NoBlockIgnored(o) == FALSE
NoBlock(o) == o = CHANNOBLK

\* second loop: chanrecv for CHANRCV, chansend for CHANSND
BlockOpNb(o) == IF o = CHANRCV THEN "nbrecv" ELSE "nbsend"
BlockOp(o) == IF o = CHANRCV THEN "recv" ELSE "send"

\* second loop: if (chanrecv(...) > 0) return i; if (chansend(...) > 0) return i
BlockDoneNonZero(r) == r # 0
BlockDone(r) == r > 0

\* the element behind alts[i].v when the operation of the entry is called: the
\* element to send, or a slot nothing has been received into
AltSlot(t, o) == IF o = CHANSND THEN <<t, budget[t] + 1>> ELSE Uninit

\* history: the channels at the call of alt, and whether every other thread was
\* outside every operation
Snapshot(t) ==
    [nbuf |-> nbuf, off |-> off, buf |-> buf, closed |-> closed,
     nsent |-> [c \in AllChans |-> Len(sent[c])],
     nrecvd |-> [c \in AllChans |-> Len(recvd[c])],
     calls |-> calls - 1,
     quiet |-> \A u \in Threads \ {t} : pc[u] = "idle" /\ altpc[u] = "none"]

\* alt(alts): i = 0 of the first loop
alt_call(t, l) ==
    /\ pc[t] = "idle" /\ CanCall(t)
    /\ Start(t, "alt", ch[t], val[t])
    /\ alts' = [alts EXCEPT ![t] = l]
    /\ altpc' = [altpc EXCEPT ![t] = "scan"]
    /\ alti' = [alti EXCEPT ![t] = 0]
    /\ snap' = [snap EXCEPT ![t] = Snapshot(t)]
    /\ busy' = [busy EXCEPT ![t] = {}]
    /\ UNCHANGED <<altret, procvars, bufsize, chanvars, lock, notempty, notfull, pc, ret, histvars>>

\* return r
AltReturn(t, r) ==
    /\ altpc' = [altpc EXCEPT ![t] = "none"]
    /\ altret' = [altret EXCEPT ![t] = r]
    /\ op' = [op EXCEPT ![t] = "alt"]
    /\ UNCHANGED <<alts, alti, snap, busy, procvars, bufsize, chanvars, lock, notempty, notfull,
                   pc, ch, val, ret, budget, calls, histvars, mark>>

\* i++
AltAdvance(t, p) ==
    /\ altpc' = [altpc EXCEPT ![t] = p]
    /\ alti' = [alti EXCEPT ![t] = @ + 1]
    /\ UNCHANGED <<alts, altret, snap, busy, procvars, bufsize, chanvars, lock, notempty, notfull,
                   pc, op, ch, val, ret, budget, calls, histvars, mark>>

\* first loop, entry i: the loop test, the CHANNOBLK test, and the trylock of
\* channbrecv or channbsend
alt_scan(t) ==
    /\ altpc[t] = "scan" /\ pc[t] = "idle"
    /\ LET e == Entry(t, alti[t]) IN
       IF e.op = CHANEND
       THEN /\ altpc' = [altpc EXCEPT ![t] = "block"]
            /\ alti' = [alti EXCEPT ![t] = 0]
            /\ UNCHANGED <<alts, altret, snap, busy, procvars, bufsize, chanvars, lock, notempty,
                           notfull, pc, op, ch, val, ret, budget, calls, histvars, mark>>
       ELSE IF NoBlock(e.op)
       THEN AltReturn(t, alti[t])
       ELSE IF e.op \in {CHANRCV, CHANSND}
       THEN /\ altpc' = [altpc EXCEPT ![t] = "scanw"]
            /\ op' = [op EXCEPT ![t] = ScanOp(e.op)]
            /\ ch' = [ch EXCEPT ![t] = e.c]
            /\ val' = [val EXCEPT ![t] = AltSlot(t, e.op)]
            /\ IF lock[e.c] = 0
               THEN /\ lock' = [lock EXCEPT ![e.c] = t]
                    /\ pc' = [pc EXCEPT ![t] = ScanOp(e.op)]
                    /\ UNCHANGED <<ret, busy>>
               ELSE /\ ret' = [ret EXCEPT ![t] = 0]
                    /\ busy' = [busy EXCEPT ![t] = @ \cup {alti[t]}]
                    /\ UNCHANGED <<lock, pc>>
            /\ UNCHANGED <<alts, alti, altret, snap, procvars, bufsize, chanvars, notempty,
                           notfull, budget, calls, histvars, mark>>
       ELSE AltAdvance(t, "scan")

\* first loop: the non-blocking operation of entry i has returned
alt_scan_ret(t) ==
    /\ altpc[t] = "scanw" /\ pc[t] = "idle"
    /\ IF ScanReady(ret[t]) THEN AltReturn(t, alti[t]) ELSE AltAdvance(t, "scan")

\* second loop, entry i: the loop test and the pthread_mutex_lock of chanrecv
\* or chansend
alt_block(t) ==
    /\ altpc[t] = "block" /\ pc[t] = "idle"
    /\ LET e == Entry(t, alti[t]) IN
       IF e.op = CHANEND
       THEN AltReturn(t, -1)
       ELSE IF e.op \in {CHANRCV, CHANSND}
       THEN /\ Lock(t, e.c)
            /\ altpc' = [altpc EXCEPT ![t] = "blockw"]
            /\ pc' = [pc EXCEPT ![t] = BlockOp(e.op)]
            /\ op' = [op EXCEPT ![t] = BlockOp(e.op)]
            /\ ch' = [ch EXCEPT ![t] = e.c]
            /\ val' = [val EXCEPT ![t] = AltSlot(t, e.op)]
            /\ mark' = [mark EXCEPT ![t] = -1]
            /\ UNCHANGED <<alts, alti, altret, snap, busy, procvars, bufsize, chanvars, notempty,
                           notfull, ret, budget, calls, histvars>>
       ELSE AltAdvance(t, "block")

\* second loop: the blocking operation of entry i has returned
alt_block_ret(t) ==
    /\ altpc[t] = "blockw" /\ pc[t] = "idle"
    /\ IF BlockDone(ret[t]) THEN AltReturn(t, alti[t]) ELSE AltAdvance(t, "block")

\* a step of alt between the operations it calls
AltStep(t) ==
    \/ alt_scan(t)
    \/ alt_scan_ret(t)
    \/ alt_block(t)
    \/ alt_block_ret(t)

(* ---- cognitive_agent_send_message ---- *)

\* nbsendp(c, v): return channbsend(c, &v); r is what channbsend returned
nbsendp(r) == r

\* if (nbsendp(receiver->input_channel, formatted_msg) < 0) return -1; return 0;
cognitive_agent_send_message(r) == IF nbsendp(r) < 0 THEN -1 ELSE 0

(* ---- the threads ---- *)

\* a step inside a blocking send or receive that has started
BlockingStep(t) ==
    \/ chansend_body(t)
    \/ chansend_relock(t)
    \/ chansend_loop(t)
    \/ chanrecv_body(t)
    \/ chanrecv_relock(t)

\* a step inside an operation that has started
Step(t) ==
    \/ BlockingStep(t)
    \/ channbsend_body(t)
    \/ channbrecv_body(t)
    \/ chanclose_body(t)

Next ==
    \/ \E t \in Threads, c \in Chans : chansend_call(t, c)
    \/ \E t \in Threads, c \in Chans : chanrecv_call(t, c)
    \/ \E t \in Threads, c \in Chans : channbsend_call(t, c)
    \/ \E t \in Threads, c \in Chans : channbrecv_call(t, c)
    \/ \E t \in Threads, c \in Chans : chanclose_call(t, c)
    \/ \E t \in Threads : Step(t)
    \/ \E t \in Threads : SpuriousWakeup(t)

Spec == Init /\ [][Next]_vars

\* a thread that can run inside an operation is eventually run; nothing obliges
\* a thread to start a call, and nothing obliges a wake-up to be spurious
Fairness == \A t \in Threads : WF_vars(Step(t))

InitLive == InitCalls(MaxLiveCalls)

FairSpec == InitLive /\ [][Next]_vars /\ Fairness

(* ---- T senders of M elements each, one receiver of T x M elements ---- *)

AllSent == Senders \X (1..SendsEach)

InitTM ==
    /\ chancreate(1..MaxCap, {1})
    /\ ThreadsIdle
    /\ HistInit
    /\ ProcIdle
    /\ budget = [t \in Threads |-> IF t \in Senders THEN SendsEach
                                   ELSE IF t = Receiver THEN NSenders * SendsEach
                                   ELSE 0]
    /\ calls = 2 * NSenders * SendsEach

NextTM ==
    \/ \E t \in Senders : chansend_call(t, "A")
    \/ chanrecv_call(Receiver, "A")
    \/ \E t \in Threads : BlockingStep(t)
    \/ \E t \in Threads : SpuriousWakeup(t)

SpecTM == InitTM /\ [][NextTM]_vars

(* ---- senders and receivers with as many sends as receives ---- *)

\* f[1] + ... + f[n]
RECURSIVE SumTo(_, _)
SumTo(f, n) == IF n = 0 THEN 0 ELSE f[n] + SumTo(f, n - 1)

\* the calls the threads of role o make between them
CallsOf(o) == SumTo([t \in Threads |-> IF op[t] = o THEN budget[t] ELSE 0], NThreads)

\* every thread is a sender or a receiver of up to MaxLiveCalls elements, or makes
\* no call; the senders send as many elements as the receivers receive
InitBal ==
    /\ chancreate(1..MaxCap, {1})
    /\ pc = [t \in Threads |-> "idle"]
    /\ op \in [Threads -> {"send", "recv", "none"}]
    /\ ch = [t \in Threads |-> "A"]
    /\ val = [t \in Threads |-> Uninit]
    /\ ret = [t \in Threads |-> 0]
    /\ mark = [t \in Threads |-> -1]
    /\ alts = [t \in Threads |-> <<>>]
    /\ altpc = [t \in Threads |-> "none"]
    /\ alti = [t \in Threads |-> 0]
    /\ altret = [t \in Threads |-> 0]
    /\ snap = [t \in Threads |-> <<>>]
    /\ busy = [t \in Threads |-> {}]
    /\ HistInit
    /\ ProcIdle
    /\ budget \in [Threads -> 0..MaxLiveCalls]
    /\ \A t \in Threads : budget[t] = 0 <=> op[t] = "none"
    /\ CallsOf("send") = CallsOf("recv")
    /\ calls = CallsOf("send") + CallsOf("recv")

\* the next call of a sender is a chansend, the next call of a receiver a chanrecv
BalCall(t) ==
    \/ op[t] = "send" /\ chansend_call(t, "A")
    \/ op[t] = "recv" /\ chanrecv_call(t, "A")

NextBal ==
    \/ \E t \in Threads : BalCall(t)
    \/ \E t \in Threads : BlockingStep(t)
    \/ \E t \in Threads : SpuriousWakeup(t)

\* fair scheduling: a thread that can again and again take a step of its own
\* (start its next call, take the mutex, run under the mutex) eventually does
BalFairness == \A t \in Threads : SF_vars(BalCall(t) \/ BlockingStep(t))

FairBal == InitBal /\ [][NextBal]_vars /\ BalFairness

(* ---- a channel of capacity 0 ---- *)

\* chancreate(elemsize, 0): channel A has no buffer
InitZero ==
    /\ chancreate({0}, {1})
    /\ ThreadsIdle
    /\ HistInit
    /\ ProcIdle
    /\ budget = [t \in Threads |-> MaxCalls]
    /\ calls = MaxCalls

SpecZero == InitZero /\ [][Next]_vars

(* ---- chancreate, with the results malloc can give ---- *)

\* the arguments the callers pass: negative, zero and positive sizes
ElemSizes == -1..1
BufSizes == -1..MaxCap

\* malloc(n) returns a block (TRUE) or NULL (FALSE); a negative int converts to
\* a size_t no heap can supply
Malloc(n) == IF n < 0 THEN {FALSE} ELSE {TRUE, FALSE}

\* if (!c) return nil;
RecNilIgnored(ok) == FALSE
RecNil(ok) == ~ok

\* if (!c->buf) { free(c); return nil; }
BufNilIgnored(ok) == FALSE
BufNil(ok) == ~ok

\* the fields chancreate writes into the record
NewFields(e, b) ==
    [elemsize |-> e, bufsize |-> b, nbuf |-> 0, off |-> 0, closed |-> FALSE]

\* chancreate(e, b) up to the test of bufsize: the record is allocated and its
\* fields are written; writing through a NULL record ends the process
chancreate_call(t, e, b) ==
    /\ create[t].pc = "none"
    /\ \E ok \in Malloc(1) :
         create' = [create EXCEPT ![t] =
            IF RecNil(ok)
            THEN [@ EXCEPT !.pc = "done", !.elemsize = e, !.bufsize = b,
                           !.c = "nil", !.ret = "nil"]
            ELSE IF ~ok
            THEN [@ EXCEPT !.pc = "done", !.elemsize = e, !.bufsize = b,
                           !.c = "nil", !.ret = "crash"]
            ELSE [@ EXCEPT !.pc = "buf", !.elemsize = e, !.bufsize = b,
                           !.c = "live", !.fields = NewFields(e, b)]]
    /\ UNCHANGED <<altvars, spawn, bufsize, chanvars, lock, notempty, notfull, pc, op,
                   ch, val, ret, budget, calls, histvars, mark>>

\* the rest of chancreate: the buffer of a channel with bufsize > 0 is allocated,
\* the mutex and the conditions are initialised, the record is returned
chancreate_buf(t) ==
    /\ create[t].pc = "buf"
    /\ LET e == create[t].fields.elemsize
           b == create[t].fields.bufsize
       IN  IF b > 0
           THEN \E ok \in Malloc(e * b) :
                  create' = [create EXCEPT ![t] =
                     IF BufNil(ok)
                     THEN [@ EXCEPT !.pc = "done", !.cbuf = "nil", !.c = "freed",
                                    !.ret = "nil"]
                     ELSE [@ EXCEPT !.pc = "done",
                                    !.cbuf = IF ok THEN "live" ELSE "nil",
                                    !.ret = "chan"]]
           ELSE create' = [create EXCEPT ![t] =
                     [@ EXCEPT !.pc = "done", !.cbuf = "nil", !.ret = "chan"]]
    /\ UNCHANGED <<altvars, spawn, bufsize, chanvars, lock, notempty, notfull, pc, op,
                   ch, val, ret, budget, calls, histvars, mark>>

\* the threads create channels and do nothing else
InitCreate ==
    /\ chancreate({1}, {1})
    /\ ThreadsIdle
    /\ HistInit
    /\ ProcIdle
    /\ budget = [t \in Threads |-> 0]
    /\ calls = 0

NextCreate ==
    \/ \E t \in Creators, e \in ElemSizes, b \in BufSizes : chancreate_call(t, e, b)
    \/ \E t \in Creators : chancreate_buf(t)

SpecCreate == InitCreate /\ [][NextCreate]_vars

(* ---- threadcreate: the main thread starts consume loops ---- *)

Main == 1

\* a thread no threadcreate has made yet
Unborn ==
    [state |-> "unborn", by |-> 0, started |-> 0, targ |-> "none", detached |-> FALSE]

\* pthread_detach returns at once, whatever the thread is doing
DetachJoins(u) == spawn[u].state = "exited"
Detach(u) == TRUE

\* threadcreate up to the return of pthread_create: the argument block is
\* allocated and filled, thread u exists and will run thread_wrapper.  The model
\* follows the runs in which malloc and pthread_create succeed; the code tests
\* neither result.
threadcreate_call(t, u) ==
    /\ pc[t] = "idle" /\ altpc[t] = "none"
    /\ spawn[t].state = "running"
    /\ spawn[u].state = "unborn"
    /\ spawn' = [spawn EXCEPT ![u] = [state |-> "created", by |-> t, started |-> 0,
                                      targ |-> "live", detached |-> FALSE]]
    /\ pc' = [pc EXCEPT ![t] = "spawn"]
    /\ op' = [op EXCEPT ![t] = "threadcreate"]
    /\ UNCHANGED <<altvars, create, bufsize, chanvars, lock, notempty, notfull, ch, val,
                   ret, budget, calls, histvars, mark>>

\* pthread_detach(thread) and the return of threadcreate
threadcreate_ret(t) ==
    /\ pc[t] = "spawn"
    /\ \E u \in Threads :
         /\ spawn[u].by = t /\ ~spawn[u].detached
         /\ Detach(u)
         /\ spawn' = [spawn EXCEPT ![u].detached = TRUE]
    /\ pc' = [pc EXCEPT ![t] = "idle"]
    /\ UNCHANGED <<altvars, create, bufsize, chanvars, lock, notempty, notfull, op, ch,
                   val, ret, budget, calls, histvars, mark>>

\* thread_wrapper calls targ->fn(targ->arg): the consume loop of thread u begins
thread_wrapper(u) ==
    /\ spawn[u].state = "created"
    /\ spawn' = [spawn EXCEPT ![u].state = "running", ![u].started = @ + 1]
    /\ budget' = [budget EXCEPT ![u] = MaxLiveCalls]
    /\ UNCHANGED <<altvars, create, bufsize, chanvars, lock, notempty, notfull, pc, op,
                   ch, val, ret, calls, histvars, mark>>

\* the consume loop has found the channel closed
LoopOver(u) == op[u] = "recv" /\ ret[u] = -1

\* fn is the loop  while (chanrecv(c, &v) > 0) ;  on channel A
fn_recv(u) ==
    /\ spawn[u].by # 0 /\ spawn[u].state = "running"
    /\ ~LoopOver(u)
    /\ chanrecv_call(u, "A")

\* fn returns; thread_wrapper frees targ and the thread ends
thread_exit(u) ==
    /\ spawn[u].by # 0 /\ spawn[u].state = "running"
    /\ pc[u] = "idle" /\ LoopOver(u)
    /\ spawn' = [spawn EXCEPT ![u].state = "exited", ![u].targ = "freed"]
    /\ UNCHANGED <<altvars, create, bufsize, chanvars, lock, notempty, notfull, pc, op,
                   ch, val, ret, budget, calls, histvars, mark>>

\* only the main thread exists; it creates the others, sends to them and closes
InitSpawn ==
    /\ chancreate(1..MaxCap, {1})
    /\ ThreadsIdle
    /\ HistInit
    /\ create = [t \in Creators |-> NoCreate]
    /\ spawn = [t \in Threads |-> IF t = Main THEN Running ELSE Unborn]
    /\ budget = [t \in Threads |-> IF t = Main THEN MaxLiveCalls ELSE 0]
    /\ calls = MaxCalls

NextSpawn ==
    \/ \E u \in Threads : threadcreate_call(Main, u)
    \/ threadcreate_ret(Main)
    \/ \E u \in Threads : thread_wrapper(u)
    \/ \E u \in Threads : fn_recv(u)
    \/ \E u \in Threads : thread_exit(u)
    \/ chansend_call(Main, "A")
    \/ chanclose_call(Main, "A")
    \/ \E t \in Threads : BlockingStep(t)
    \/ \E t \in Threads : chanclose_body(t)
    \/ \E t \in Threads : SpuriousWakeup(t)

SpecSpawn == InitSpawn /\ [][NextSpawn]_vars

(* ---- a channel without a buffer: capacity 0 or negative ---- *)

\* chancreate(elemsize, b) with b <= 0: bufsize = b and buf = nil
InitNoBuf ==
    /\ chancreate(-1..0, {1})
    /\ ThreadsIdle
    /\ HistInit
    /\ ProcIdle
    /\ budget = [t \in Threads |-> MaxCalls]
    /\ calls = MaxCalls

SpecNoBuf == InitNoBuf /\ [][Next]_vars

(* ---- one thread calls alt on channels A and B, the others operate on them ---- *)

Selector == NThreads

\* the first entry is on channel A, a second entry is on channel B
AltLists ==
    {AltList(<<[c |-> "A", op |-> o]>>) : o \in {CHANRCV, CHANSND}}
    \cup {AltList(<<[c |-> "A", op |-> o1], [c |-> "B", op |-> o2]>>) :
             o1 \in {CHANRCV, CHANSND}, o2 \in {CHANRCV, CHANSND}}

InitAlt ==
    /\ chancreate({1}, 1..MaxCap)
    /\ ThreadsIdle
    /\ HistInit
    /\ ProcIdle
    /\ budget = [t \in Threads |-> MaxAltCalls]
    /\ calls = MaxAltCalls

NextAlt ==
    \/ \E l \in AltLists : alt_call(Selector, l)
    \/ AltStep(Selector)
    \/ \E t \in Threads \ {Selector}, c \in AllChans : chansend_call(t, c)
    \/ \E t \in Threads \ {Selector}, c \in AllChans : chanrecv_call(t, c)
    \/ \E t \in Threads \ {Selector}, c \in AllChans : chanclose_call(t, c)
    \/ \E t \in Threads \ {Selector}, c \in AllChans : chanlen_call(t, c)
    \/ \E t \in Threads : Step(t)
    \/ \E t \in Threads : chanlen_body(t)
    \/ \E t \in Threads : SpuriousWakeup(t)

SpecAlt == InitAlt /\ [][NextAlt]_vars

(* ---- alt on lists with CHANNOP and CHANNOBLK entries ---- *)

\* the operations an entry can name
EntryOps == {CHANRCV, CHANSND, CHANNOP, CHANNOBLK}

\* entry on channel c with operation o; CHANNOP and CHANNOBLK entries name no
\* channel
AltEntry(c, o) == [c |-> IF o \in {CHANRCV, CHANSND} THEN c ELSE "nil", op |-> o]

\* two entries: the first on channel A, the second on channel B
MarkLists == {AltList(<<AltEntry("A", o1), AltEntry("B", o2)>>) : o1, o2 \in EntryOps}

InitMark ==
    /\ chancreate({1}, {1})
    /\ ThreadsIdle
    /\ HistInit
    /\ ProcIdle
    /\ budget = [t \in Threads |-> MaxAltCalls]
    /\ calls = MaxAltCalls

NextMark ==
    \/ \E l \in MarkLists : alt_call(Selector, l)
    \/ AltStep(Selector)
    \/ \E t \in Threads \ {Selector}, c \in AllChans : chansend_call(t, c)
    \/ \E t \in Threads \ {Selector}, c \in AllChans : chanrecv_call(t, c)
    \/ \E t \in Threads \ {Selector}, c \in AllChans : chanclose_call(t, c)
    \/ \E t \in Threads : Step(t)
    \/ \E t \in Threads : SpuriousWakeup(t)

SpecMark == InitMark /\ [][NextMark]_vars

(* ---- namespace_event_process: the event loop calls alt ---- *)

\* Alt alts[] = { {event_channel, nil, CHANRCV, ...},
\*                {activation_channel, nil, CHANRCV, ...}, {nil, nil, CHANEND, ...} }
\* with the event channel as A and the activation channel as B; v is the value
\* slot of the entry
EventLoopAlts ==
    <<[c |-> "A", v |-> "nil", op |-> CHANRCV],
      [c |-> "B", v |-> "nil", op |-> CHANRCV],
      [c |-> "nil", v |-> "nil", op |-> CHANEND]>>

\* the process has been ended by a memory fault
Faulted == \E t \in Threads : altpc[t] = "fault"

\* thread t is inside the receive of an alt entry, holds the lock, and the
\* receive goes on to memcpy(v, src, elemsize) with v = alts[i].v
AtCopy(t) ==
    /\ altpc[t] \in {"scanw", "blockw"}
    /\ HasBuf(ch[t])
    /\ \/ pc[t] = "nbrecv" /\ ~NbRecvNotReady(ch[t])
       \/ pc[t] = "recv" /\ ~RecvMustWait(ch[t]) /\ ~RecvClosed(ch[t])

\* the next turn of the for (;;) loop: switch (alt(alts))
event_loop_alt(t) == alt_call(t, EventLoopAlts)

\* memcpy through the nil slot is undefined; one outcome is the fault that ends
\* the process, another is that the receive carries on (the steps of the
\* receive itself)
memcpy_fault(t) ==
    /\ AtCopy(t) /\ Entry(t, alti[t]).v = "nil"
    /\ altpc' = [altpc EXCEPT ![t] = "fault"]
    /\ UNCHANGED <<alts, alti, altret, snap, busy, procvars, bufsize, chanvars, lock, notempty,
                   notfull, pc, op, ch, val, ret, budget, calls, histvars, mark>>

\* case 1: activation = *(double*)alts[1].v reads through the nil slot; one
\* outcome is the fault, another is that the loop carries on
case1_fault(t) ==
    /\ altpc[t] = "none" /\ op[t] = "alt" /\ altret[t] = 1 /\ Entry(t, 1).v = "nil"
    /\ altpc' = [altpc EXCEPT ![t] = "fault"]
    /\ UNCHANGED <<alts, alti, altret, snap, busy, procvars, bufsize, chanvars, lock, notempty,
                   notfull, pc, op, ch, val, ret, budget, calls, histvars, mark>>

InitLoop ==
    /\ chancreate(1..MaxCap, 1..MaxCap)
    /\ ThreadsIdle
    /\ HistInit
    /\ ProcIdle
    /\ budget = [t \in Threads |-> MaxAltCalls]
    /\ calls = MaxAltCalls

\* the event loop runs in thread Selector; the other threads send events and
\* activations and close the channels; nothing runs after a fault
NextLoop ==
    \/ ~Faulted /\ event_loop_alt(Selector)
    \/ ~Faulted /\ AltStep(Selector)
    \/ ~Faulted /\ memcpy_fault(Selector)
    \/ ~Faulted /\ case1_fault(Selector)
    \/ ~Faulted /\ \E t \in Threads \ {Selector}, c \in AllChans : chansend_call(t, c)
    \/ ~Faulted /\ \E t \in Threads \ {Selector}, c \in AllChans : chanclose_call(t, c)
    \/ ~Faulted /\ \E t \in Threads : Step(t)
    \/ ~Faulted /\ \E t \in Threads : SpuriousWakeup(t)

SpecLoop == InitLoop /\ [][NextLoop]_vars

(* ---- properties ---- *)

\* number of positions of s that hold x
Count(s, x) == Cardinality({i \in 1..Len(s) : s[i] = x})

\* thread t has returned from a call of operation o
Returned(t, o) == pc[t] = "idle" /\ op[t] = o

\* thread t leaves position p in this step
Leaves(t, p) == pc[t] = p /\ pc'[t] # p

\* C1: elements leave a channel in exactly the order in which they entered it,
\* across wrap-around of the circular buffer: the elements dequeued so far
\* followed by the buffered elements, oldest first, are the elements enqueued
\* so far, in the order of their enqueuing.
C1_Fifo == \A c \in Chans : recvd[c] \o Queue(c) = sent[c]

\* the buffered elements wrap around the end of the buffer after a dequeue
C1_Witness ==
    \E c \in Chans : /\ bufsize[c] > 1
                     /\ off[c] + nbuf[c] > bufsize[c]
                     /\ Len(recvd[c]) >= 1

\* C2: T senders of M elements each and one receiver of T x M elements: what
\* the receiver has obtained never holds an element twice nor an element no
\* sender passed to chansend, and once the receiver has returned from its last
\* receive it has obtained every sent element exactly once.
C2_Integrity ==
    /\ \A i \in 1..Len(recvd["A"]) :
          /\ recvd["A"][i] \in AllSent
          /\ recvd["A"][i][2] > budget[recvd["A"][i][1]]
          /\ Count(recvd["A"], recvd["A"][i]) = 1
    /\ (pc[Receiver] = "idle" /\ budget[Receiver] = 0) =>
          /\ ret[Receiver] = 1
          /\ \A x \in AllSent : Count(recvd["A"], x) = 1

\* every sender and the receiver have returned from their last call on a channel
\* of capacity above 1
C2_Witness ==
    /\ pc[Receiver] = "idle" /\ budget[Receiver] = 0
    /\ bufsize["A"] > 1
    /\ \A t \in Senders : Returned(t, "send") /\ budget[t] = 0

\* C3: the buffered count of a channel is never negative and never exceeds the
\* capacity.
C3_CountInRange == \A c \in Chans : 0 <= nbuf[c] /\ nbuf[c] <= bufsize[c]

\* a non-blocking send was turned away by a full open channel
C3_Witness ==
    \E t \in Threads : /\ Returned(t, "nbsend") /\ ret[t] = 0
                       /\ nbuf[ch[t]] = bufsize[ch[t]]
                       /\ ~closed[ch[t]]

\* C4: a channel closed while it held K elements: a chanrecv that runs on the
\* closed channel never suspends; while fewer than K elements have been
\* dequeued since the close it succeeds with the next of the K elements, in
\* their buffered order, and after K dequeues it returns -1.
C4_CloseDrains ==
    [][\A t \in Threads :
          (Leaves(t, "recv") /\ closed[ch[t]]) =>
             LET c == ch[t]
                 k == Len(recvd[c]) - nclose[c]
             IN  /\ pc'[t] = "idle"
                 /\ IF k < Len(atclose[c])
                    THEN ret'[t] = 1 /\ val'[t] = atclose[c][k + 1]
                    ELSE ret'[t] = -1 /\ val'[t] = val[t]]_vars

\* a channel closed with an element in it was drained and a later chanrecv
\* returned -1
C4_Witness ==
    \E t \in Threads :
       /\ Returned(t, "recv") /\ ret[t] = -1
       /\ Len(atclose[ch[t]]) >= 1
       /\ Len(recvd[ch[t]]) - nclose[ch[t]] = Len(atclose[ch[t]])

\* C5: a chansend that starts on a closed channel returns -1 in its first step
\* under the lock: it does not suspend and it enqueues nothing, whatever the
\* buffer holds.
C5_SendAfterClose ==
    [][\A t \in Threads :
          (Leaves(t, "send") /\ closed[ch[t]]) =>
             /\ pc'[t] = "idle"
             /\ ret'[t] = -1
             /\ UNCHANGED <<buf, nbuf, off, sent>>]_vars

\* a chansend on a closed channel with free space returned -1 without having
\* waited
C5_Witness ==
    \E t \in Threads :
       /\ Returned(t, "send") /\ ret[t] = -1 /\ mark[t] = -1
       /\ closed[ch[t]]
       /\ nbuf[ch[t]] < bufsize[ch[t]]

\* C6: a channbsend that took the lock of a closed channel returns an outcome
\* other than 0, the outcome it returns for a full open channel.
C6_NbSendClosedError ==
    [][\A t \in Threads :
          (Leaves(t, "nbsend") /\ closed[ch[t]]) => ret'[t] # 0]_vars

\* C7: a channbrecv that took the lock of a closed channel with nothing
\* buffered returns -1, and one that took the lock of an open channel with
\* nothing buffered returns 0.
C7_NbRecvClosedError ==
    [][\A t \in Threads :
          (Leaves(t, "nbrecv") /\ nbuf[ch[t]] = 0) =>
             ret'[t] = (IF closed[ch[t]] THEN -1 ELSE 0)]_vars

\* C8: a thread inside the condition wait of a blocking send or receive on a
\* channel that has been closed eventually returns: the sender with -1, the
\* receiver with an element or with -1.
C8_CloseWakes ==
    \A t \in Threads :
       /\ (pc[t] \in {"sendw", "sendr"} /\ closed[ch[t]])
             ~> (Returned(t, "send") /\ ret[t] = -1)
       /\ (pc[t] \in {"recvw", "recvr"} /\ closed[ch[t]])
             ~> (Returned(t, "recv") /\ ret[t] \in {1, -1})

\* a sender that had found the channel full returned -1 from the closed channel
C8_Witness ==
    \E t \in Threads :
       /\ Returned(t, "send") /\ ret[t] = -1 /\ mark[t] >= 0
       /\ closed[ch[t]]

\* C9: a chanclose on a channel that is already closed leaves the closed flag,
\* the count, the offset and the buffer as they were, and returns.
C9_CloseIdempotent ==
    /\ [][\A t \in Threads :
             (Leaves(t, "close") /\ closed[ch[t]]) =>
                /\ pc'[t] = "idle"
                /\ UNCHANGED <<closed, nbuf, off, buf>>]_vars
    /\ \A t \in Threads : (pc[t] = "close" /\ closed[ch[t]]) ~> (pc[t] = "idle")

\* two threads have closed the same channel, which holds an element
C9_Witness ==
    \E t, u \in Threads :
       /\ t # u /\ ch[t] = ch[u]
       /\ Returned(t, "close") /\ Returned(u, "close")
       /\ nbuf[ch[t]] >= 1

\* C10: a chansend that found the open channel holding bufsize elements has
\* not returned success unless an element was dequeued from the channel after
\* that.
C10_FullSendWaits ==
    \A t \in Threads :
       (Returned(t, "send") /\ ret[t] = 1 /\ mark[t] >= 0) =>
          Len(recvd[ch[t]]) > mark[t]

\* a chansend that had found the channel full returned success
C10_Witness ==
    \E t \in Threads : Returned(t, "send") /\ ret[t] = 1 /\ mark[t] >= 0

\* C11: a channbsend that took the lock of an open channel holding bufsize
\* elements returns 0 in that step, without entering a wait, and leaves the
\* count, the offset and the buffer as they were.
C11_NbSendFull ==
    [][\A t \in Threads :
          (Leaves(t, "nbsend") /\ ~closed[ch[t]] /\ nbuf[ch[t]] = bufsize[ch[t]]) =>
             /\ pc'[t] = "idle"
             /\ ret'[t] = 0
             /\ UNCHANGED <<nbuf, off, buf, sent>>]_vars

\* a channbsend returned 0 from a full open channel and its element is not in
\* the buffer
C11_Witness ==
    \E t \in Threads :
       /\ Returned(t, "nbsend") /\ ret[t] = 0
       /\ ~closed[ch[t]] /\ lock[ch[t]] = 0
       /\ nbuf[ch[t]] = bufsize[ch[t]]
       /\ \A i \in 1..nbuf[ch[t]] : Queue(ch[t])[i] # val[t]

\* thread t starts a channbsend or channbrecv in this step
NbCall(t) ==
    /\ pc[t] = "idle"
    /\ budget'[t] < budget[t]
    /\ op'[t] \in {"nbsend", "nbrecv"}

\* C19: a channbsend or channbrecv that finds the lock of its channel held has
\* returned 0 by the end of that step and has changed nothing of the channel,
\* whatever the channel holds.
C19_TryLockBusy ==
    [][\A t \in Threads :
          (NbCall(t) /\ lock[ch'[t]] # 0) =>
             /\ pc'[t] = "idle"
             /\ ret'[t] = 0
             /\ UNCHANGED <<chanvars, lock, notempty, notfull, sent, recvd>>]_vars

\* a channbrecv returned 0 while the channel held an element that nothing has
\* dequeued and another thread held the lock
C19_Witness ==
    \E t \in Threads :
       /\ Returned(t, "nbrecv") /\ ret[t] = 0
       /\ nbuf[ch[t]] > 0 /\ Len(sent[ch[t]]) = nbuf[ch[t]]
       /\ lock[ch[t]] \notin {0, t}

\* C20: channbsend and channbrecv never wait: a thread that may start a call
\* can start either of them whoever holds the lock, a thread inside one of
\* them holds the lock and can take its next step, that step returns, and the
\* thread is in no wait set.
C20_NbNeverSuspends ==
    \A t \in Threads :
       /\ (pc[t] = "idle" /\ CanCall(t)) =>
             \A c \in Chans : /\ ENABLED channbsend_call(t, c)
                              /\ ENABLED channbrecv_call(t, c)
       /\ pc[t] = "nbsend" => (lock[ch[t]] = t /\ ENABLED channbsend_body(t))
       /\ pc[t] = "nbrecv" => (lock[ch[t]] = t /\ ENABLED channbrecv_body(t))
       /\ op[t] \in {"nbsend", "nbrecv"} =>
             /\ pc[t] \in {"idle", "nbsend", "nbrecv"}
             /\ \A c \in Chans : t \notin notfull[c] \cup notempty[c]

\* a channbsend returned while another thread was suspended in a chansend on
\* the same channel
C20_Witness ==
    \E t, u \in Threads :
       /\ Returned(t, "nbsend")
       /\ pc[u] = "sendw" /\ ch[u] = ch[t]

(* ---- alt ---- *)

\* since thread t called alt, it has been the only thread inside an operation
AltAlone(t) == alts[t] # <<>> /\ snap[t].quiet /\ calls = snap[t].calls

\* alt of thread t is in its second loop, the blocking operations
AltFallback(t) == altpc[t] \in {"block", "blockw"}

\* thread t is suspended on a condition
Suspended(t) == pc[t] \in {"sendw", "recvw"}

\* alt of thread t has returned
AltDone(t) == altpc[t] = "none" /\ op[t] = "alt"

\* the oldest element of channel c when thread t called alt
SnapOldest(t, c) == snap[t].buf[c][snap[t].off[c]]

\* channel c is as it was when thread t called alt
SnapSame(t, c) ==
    /\ nbuf[c] = snap[t].nbuf[c]
    /\ off[c] = snap[t].off[c]
    /\ buf[c] = snap[t].buf[c]
    /\ closed[c] = snap[t].closed[c]

RecvAB == AltList(<<[c |-> "A", op |-> CHANRCV], [c |-> "B", op |-> CHANRCV]>>)

\* C12: with no other thread operating, alt on [receive A, receive B] called
\* when A is open and empty and B holds data never enters the blocking loop,
\* never suspends, and returns index 1 with the oldest element of B, leaving A
\* as it was and B one element shorter.
C12_AltSecondReady ==
    \A t \in Threads :
       (/\ AltAlone(t)
        /\ alts[t] = RecvAB
        /\ ~snap[t].closed["A"] /\ snap[t].nbuf["A"] = 0
        /\ snap[t].nbuf["B"] > 0)
       => /\ ~AltFallback(t)
          /\ ~Suspended(t)
          /\ AltDone(t) =>
                /\ altret[t] = 1
                /\ val[t] = SnapOldest(t, "B")
                /\ SnapSame(t, "A")
                /\ nbuf["B"] = snap[t].nbuf["B"] - 1
                /\ recvd["B"] = Append(SubSeq(recvd["B"], 1, snap[t].nrecvd["B"]),
                                       SnapOldest(t, "B"))

C12_Witness ==
    \E t \in Threads :
       /\ AltAlone(t) /\ AltDone(t)
       /\ alts[t] = RecvAB
       /\ ~snap[t].closed["A"] /\ snap[t].nbuf["A"] = 0
       /\ snap[t].nbuf["B"] > 1
       /\ altret[t] = 1
       /\ val[t] = sent["B"][1]

\* the entries before entry i of the call thread t is in that are a send or a
\* receive
Earlier(t, i) == {j \in 0..(i - 1) : Entry(t, j).op \in {CHANRCV, CHANSND}}

Entries(t) == {j \in 0..(Len(alts[t]) - 2) : Entry(t, j).op \in {CHANRCV, CHANSND}}

\* when thread t called alt, entry j was a receive on a closed, empty channel
\* or a send on a closed channel
ClosedAtCall(t, j) ==
    /\ snap[t].closed[Entry(t, j).c]
    /\ Entry(t, j).op = CHANRCV => snap[t].nbuf[Entry(t, j).c] = 0

\* C14: an alt whose list holds a receive on a closed, empty channel or a send
\* on a closed channel treats the entry as ready: the call never suspends.
C14_ClosedEntryReady ==
    \A t \in Threads :
       (altpc[t] # "none" /\ \E j \in Entries(t) : ClosedAtCall(t, j)) =>
          ~Suspended(t)

\* when thread t called alt, the non-blocking operation of entry j would have
\* succeeded: data to receive, or an open channel with room to send
ReadyAtCall(t, j) ==
    LET e == Entry(t, j) IN
    IF e.op = CHANRCV
    THEN snap[t].nbuf[e.c] > 0
    ELSE ~snap[t].closed[e.c] /\ snap[t].nbuf[e.c] < bufsize[e.c]

\* C15: with no other thread operating, a receive entry of alt on a channel
\* that is closed but holds elements, with no earlier entry ready, is served by
\* the scan: alt never enters the blocking loop and returns the entry's index
\* with the oldest element, the count one lower.
C15_ClosedNonEmptyRecv ==
    \A t \in Threads :
       AltAlone(t) =>
          \A j \in Entries(t) :
             (/\ Entry(t, j).op = CHANRCV
              /\ snap[t].closed[Entry(t, j).c]
              /\ snap[t].nbuf[Entry(t, j).c] > 0
              /\ \A k \in Earlier(t, j) : ~ReadyAtCall(t, k))
             => /\ ~AltFallback(t)
                /\ AltDone(t) =>
                      /\ altret[t] = j
                      /\ val[t] = SnapOldest(t, Entry(t, j).c)
                      /\ nbuf[Entry(t, j).c] = snap[t].nbuf[Entry(t, j).c] - 1
                      /\ closed[Entry(t, j).c]

C15_Witness ==
    \E t \in Threads :
       /\ AltAlone(t) /\ AltDone(t)
       /\ altret[t] = 1
       /\ Entry(t, 1).op = CHANRCV
       /\ snap[t].closed["B"] /\ snap[t].nbuf["B"] > 0
       /\ closed["B"] /\ nbuf["B"] = snap[t].nbuf["B"] - 1
       /\ val[t] = sent["B"][1]

\* the entries of the call of thread t that were ready when it called alt
ReadySet(t) == {j \in Entries(t) : ReadyAtCall(t, j)}

\* the least element of a non-empty set of indices
Lowest(S) == CHOOSE j \in S : \A k \in S : j <= k

\* the number of elements sent to and received from c since thread t called alt
MovedSince(t, c) ==
    (Len(sent[c]) - snap[t].nsent[c]) + (Len(recvd[c]) - snap[t].nrecvd[c])

\* C17: when several entries are ready at the call and no other thread
\* operates, alt never enters the blocking loop, returns the lowest ready
\* index, has moved exactly one element on that entry's channel and has left
\* the channel of every other entry as it was.
C17_LowestReadyWins ==
    \A t \in Threads :
       (AltAlone(t) /\ Cardinality(ReadySet(t)) > 1) =>
          /\ ~AltFallback(t)
          /\ altpc[t] # "none" =>
                \A j \in Entries(t) : j > Lowest(ReadySet(t)) =>
                   /\ alti[t] < j
                   /\ SnapSame(t, Entry(t, j).c)
          /\ AltDone(t) =>
                /\ altret[t] = Lowest(ReadySet(t))
                /\ MovedSince(t, Entry(t, altret[t]).c) = 1
                /\ \A j \in Entries(t) \ {altret[t]} : SnapSame(t, Entry(t, j).c)

C17_Witness ==
    \E t \in Threads :
       /\ AltAlone(t) /\ AltDone(t)
       /\ ReadySet(t) = {0, 1}
       /\ altret[t] = 0
       /\ MovedSince(t, "A") = 1 /\ MovedSince(t, "B") = 0

\* entry j of the call of thread t is on an open channel and its operation
\* cannot complete now: nothing to receive, or no room to send
OpenNotReady(t, j) ==
    LET e == Entry(t, j) IN
    /\ ~closed[e.c]
    /\ IF e.op = CHANRCV THEN nbuf[e.c] <= 0 ELSE nbuf[e.c] >= bufsize[e.c]

\* thread t is inside the blocking operation of the first entry of its alt
InFirstBlocking(t) ==
    /\ altpc[t] = "blockw" /\ alti[t] = 0
    /\ pc[t] # "idle"

\* C16: while alt is inside the blocking operation of its first entry and that
\* entry's channel is open and not ready, no step, whatever happens on the
\* other channels, makes alt return or move to another entry, and alt receives
\* nothing: its value slot and the channel it operates on stay as they are.
C16_LaterNotObserved ==
    [][\A t \in Threads :
          (InFirstBlocking(t) /\ OpenNotReady(t, 0)) =>
             /\ InFirstBlocking(t)'
             /\ ch'[t] = Entry(t, 0).c
             /\ val'[t] = val[t]
             /\ altret'[t] = altret[t]]_vars

C16_Witness ==
    \E t \in Threads :
       /\ InFirstBlocking(t) /\ Suspended(t)
       /\ OpenNotReady(t, 0)
       /\ Entry(t, 1).op = CHANRCV
       /\ snap[t].nbuf["B"] = 0 /\ nbuf["B"] > 0
       /\ Len(recvd["B"]) = 0

\* entry j of the call of thread t has been ready from the call until now: a
\* receive whose channel held data at the call and lost none since, or a send
\* whose channel is open, had room at the call and gained nothing since
ReadyThroughout(t, j) ==
    LET e == Entry(t, j) IN
    /\ ReadyAtCall(t, j)
    /\ IF e.op = CHANRCV
       THEN Len(recvd[e.c]) = snap[t].nrecvd[e.c]
       ELSE ~closed[e.c] /\ Len(sent[e.c]) = snap[t].nsent[e.c]

\* C18 as stated: under every interleaving, an alt one of whose entries is
\* ready for the whole call never suspends on a condition.
C18_ReadyNeverSuspends ==
    \A t \in Threads :
       (altpc[t] # "none" /\ \E j \in Entries(t) : ReadyThroughout(t, j)) =>
          ~Suspended(t)

\* C18 (amended): under every interleaving, an alt one of whose entries is
\* ready for the whole call, and whose trylock on that entry's channel did not
\* find the lock held by another thread, never enters the blocking loop.
C18_ReadyUnlessBusy ==
    \A t \in Threads :
       (/\ altpc[t] # "none"
        /\ \E j \in Entries(t) : ReadyThroughout(t, j) /\ j \notin busy[t])
       => ~AltFallback(t) /\ ~Suspended(t)

C18_Witness ==
    \E t \in Threads :
       /\ AltDone(t) /\ altret[t] = 1
       /\ ~snap[t].quiet
       /\ busy[t] = {0}
       /\ ReadyAtCall(t, 0) /\ ReadyAtCall(t, 1)
       /\ Entry(t, 1).op = CHANRCV
       /\ Len(recvd["B"]) = snap[t].nrecvd["B"] + 1
       /\ val[t] = SnapOldest(t, "B")

(* ---- lock discipline ---- *)

\* thread t is between a pthread_mutex_lock (or trylock, or the return of
\* pthread_cond_wait) and the unlock or pthread_cond_wait that follows it
Holding(t) == pc[t] \in {"send", "sendl", "recv", "nbsend", "nbrecv", "close", "len"}

\* the fields of channel c the operations write
Fields(c) == <<nbuf[c], off[c], buf[c], closed[c]>>

\* C21: a channel's lock has at most one owner, the owner is a thread inside
\* an operation on that channel, a thread inside the locked part of an
\* operation owns the lock of its channel (so no two threads are inside the
\* locked part for one channel), a thread in a condition wait does not own
\* it; and a step that changes count, offset, buffer or closed flag of a
\* channel is a step of the owner of that channel's lock.
C21_LockDiscipline ==
    /\ [](\A c \in AllChans :
             /\ lock[c] \in Threads \cup {0}
             /\ lock[c] # 0 => Holding(lock[c]) /\ ch[lock[c]] = c)
    /\ [](\A t \in Threads :
             /\ Holding(t) => lock[ch[t]] = t
             /\ Suspended(t) => \A c \in AllChans : lock[c] # t)
    /\ [][\A c \in AllChans :
             Fields(c)' # Fields(c) =>
                /\ lock[c] # 0
                /\ Holding(lock[c]) /\ ch[lock[c]] = c
                /\ pc'[lock[c]] # pc[lock[c]]
                /\ \A d \in AllChans \ {c} : Fields(d)' = Fields(d)]_vars

\* one thread is inside the locked part of an operation on A and another
\* inside one on B, while a third is suspended in a condition wait on A
C21_Witness ==
    \E t, u, w \in Threads :
       /\ Holding(t) /\ ch[t] = "A"
       /\ Holding(u) /\ ch[u] = "B"
       /\ Suspended(w) /\ ch[w] = "A"

(* ---- the circular buffer ---- *)

\* the slots of channel c that hold an element not yet received
Occupied(c) == {(off[c] + i) % bufsize[c] : i \in 0..(nbuf[c] - 1)}

\* C22: on a channel of capacity 1 or more the read offset is always at least
\* 0 and below the capacity, and a step that enqueues an element writes it to
\* slot (off + nbuf) % bufsize and to no other slot, a slot that holds no
\* element not yet received.
C22_OffsetAndSlot ==
    /\ [](\A c \in Chans : bufsize[c] >= 1 => 0 <= off[c] /\ off[c] < bufsize[c])
    /\ [][\A c \in Chans :
             Len(sent'[c]) > Len(sent[c]) =>
                LET s == (off[c] + nbuf[c]) % bufsize[c] IN
                /\ buf'[c] = [buf[c] EXCEPT ![s] = sent'[c][Len(sent'[c])]]
                /\ s \notin Occupied(c)
                /\ off'[c] = off[c]]_vars

\* the offset has advanced and a send has wrapped around to slot 0 of a
\* channel of capacity above 1
C22_Witness ==
    \E c \in Chans :
       /\ bufsize[c] > 1
       /\ off[c] = bufsize[c] - 1
       /\ nbuf[c] = bufsize[c]
       /\ buf[c][0] = sent[c][Len(sent[c])]

(* ---- the closed flag ---- *)

\* C23: the closed flag of every channel is false when the channel has been
\* created, and no step of any operation (chansend, chanrecv, channbsend and
\* channbrecv run by alt, alt, chanlen, chanclose on an open or on a closed
\* channel) takes it from true to false.
C23_ClosedSticks ==
    /\ \A c \in AllChans : ~closed[c]
    /\ [][\A c \in AllChans : closed[c] => closed'[c]]_vars

\* a channel has been closed twice and alt has run an operation on it after
\* that
C23_Witness ==
    \E t, u \in Threads :
       /\ t # u
       /\ Returned(t, "close") /\ Returned(u, "close")
       /\ ch[t] = "A" /\ ch[u] = "A"
       /\ closed["A"]
       /\ AltDone(Selector) /\ snap[Selector].closed["A"]

(* ---- blocking operations that had to wait ---- *)

\* C30: a chansend that comes back from its condition wait, owns the lock
\* again and finds the channel closed returns -1 and enqueues nothing, also
\* when the buffer has a free slot.
C30_WokenSendClosed ==
    [][\A t \in Threads :
          (Leaves(t, "sendl") /\ closed[ch[t]]) =>
             /\ pc'[t] = "idle"
             /\ ret'[t] = -1
             /\ UNCHANGED <<buf, nbuf, off, sent>>]_vars

\* a sender found the channel full, a receive then freed a slot (and woke
\* it), the channel was closed after that receive, and the sender returned -1
\* although the buffer has a free slot
C30_Witness ==
    \E t \in Threads :
       /\ Returned(t, "send") /\ ret[t] = -1
       /\ mark[t] >= 0
       /\ nclose[ch[t]] > mark[t]
       /\ nbuf[ch[t]] < bufsize[ch[t]]
       /\ val[t] \notin {sent[ch[t]][i] : i \in 1..Len(sent[ch[t]])}

\* thread t is inside a chanrecv
InRecv(t) == pc[t] \in {"recv", "recvw", "recvr"}

\* C29: no step makes a chanrecv return while its channel is open and empty;
\* a chanrecv returns only in a step it takes under the lock, either with an
\* element that a send had enqueued or, with -1, from a closed channel.
C29_RecvWaitsForData ==
    [][\A t \in Threads :
          InRecv(t) =>
             /\ (~closed[ch[t]] /\ nbuf[ch[t]] <= 0) => InRecv(t)'
             /\ ~InRecv(t)' =>
                   /\ pc[t] = "recv" /\ lock[ch[t]] = t
                   /\ \/ /\ ret'[t] = 1
                         /\ nbuf[ch[t]] > 0
                         /\ val'[t] = sent[ch[t]][Len(recvd[ch[t]]) + 1]
                      \/ /\ ret'[t] = -1
                         /\ closed[ch[t]]]_vars

\* a receiver that waited on the open, empty channel has been woken after a
\* send enqueued an element, and is about to take the lock again
C29_Witness ==
    \E t \in Threads :
       /\ pc[t] = "recvr" /\ op[t] = "recv"
       /\ ~closed[ch[t]]
       /\ nbuf[ch[t]] > 0
       /\ lock[ch[t]] = 0

(* ---- capacity 0 ---- *)

\* C24: on a channel of capacity 0 nothing is ever enqueued, and a chansend
\* that has returned has returned -1 from the closed channel: while the
\* channel is open the sender is inside chansend, a receiver waiting on the
\* same channel or not.
C24_ZeroCapSend ==
    \A t \in Threads :
       (op[t] = "send" /\ bufsize[ch[t]] = 0) =>
          /\ nbuf[ch[t]] = 0 /\ sent[ch[t]] = <<>>
          /\ pc[t] = "idle" => ret[t] = -1 /\ closed[ch[t]]
          /\ (~closed[ch[t]] /\ lock[ch[t]] # t) => pc[t] \in {"sendw", "sendr"}

\* a sender and a receiver are both suspended on the open channel of
\* capacity 0
C24_Witness ==
    \E t, u \in Threads :
       /\ bufsize[ch[t]] = 0 /\ ch[u] = ch[t]
       /\ ~closed[ch[t]]
       /\ pc[t] = "sendw" /\ mark[t] >= 0
       /\ pc[u] = "recvw"
       /\ t \in notfull[ch[t]] /\ u \in notempty[ch[t]]

(* ---- progress of balanced senders and receivers ---- *)

\* every thread has made all its calls and returned from the last one
AllDone == \A t \in Threads : pc[t] = "idle" /\ budget[t] = 0

\* C25: on one channel of capacity 1 or more that is never closed, with
\* senders and receivers whose sends and receives are equal in number, under
\* fair scheduling every call eventually returns, and no thread stays in the
\* wait for space while the buffer has a free slot, nor in the wait for data
\* while the buffer holds an element.
C25_BalancedProgress ==
    /\ <>AllDone
    /\ \A t \in Threads :
          /\ (pc[t] = "sendw" /\ nbuf[ch[t]] < bufsize[ch[t]]) ~> (pc[t] # "sendw")
          /\ (pc[t] = "recvw" /\ nbuf[ch[t]] > 0) ~> (pc[t] # "recvw")

\* all calls have returned with success, there were two receivers, and the
\* last send of some sender had found the channel full
C25_Witness ==
    /\ AllDone
    /\ \A t \in Threads : op[t] # "none" => ret[t] = 1
    /\ Cardinality({t \in Threads : op[t] = "recv"}) >= 2
    /\ \E t \in Threads : op[t] = "send" /\ mark[t] >= 0
    /\ Len(recvd["A"]) = Len(sent["A"]) /\ Len(sent["A"]) >= 2

(* ---- C26 ---- *)

\* chancreate of thread t could not get the record
NoRecord(t) == create[t].c = "nil"

\* chancreate of thread t got the record and could not get the buffer it asked for
NoBuffer(t) == create[t].pc = "done" /\ create[t].bufsize > 0 /\ create[t].cbuf = "nil"

\* C26: when malloc gives no channel record, or gives the record and no buffer,
\* chancreate returns nil and no channel; in the second case the record has been
\* freed when chancreate returns; a channel that is returned has its record and,
\* for a positive bufsize, its buffer; no outcome of chancreate ends the process.
C26_CreateFailsWithNil ==
    \A t \in Creators :
        /\ create[t].ret # "crash"
        /\ NoRecord(t) => create[t].pc = "done" /\ create[t].ret = "nil"
        /\ NoBuffer(t) => create[t].ret = "nil" /\ create[t].c = "freed"
        /\ create[t].ret = "nil" => create[t].c # "live"
        /\ create[t].ret = "chan" =>
              /\ create[t].c = "live"
              /\ create[t].bufsize > 0 => create[t].cbuf = "live"

\* one chancreate has failed on the record, another on the buffer after it had
\* the record, and both have returned nil
C26_Witness ==
    \E t, u \in Creators :
        /\ NoRecord(t) /\ create[t].ret = "nil"
        /\ NoBuffer(u) /\ create[u].c = "freed" /\ create[u].ret = "nil"

(* ---- C27 ---- *)

\* C27: a chancreate called with an element size of zero or less returns no
\* channel.
C27_ElemSizeChecked ==
    \A t \in Creators :
        create[t].pc = "done" /\ create[t].elemsize <= 0 => create[t].ret # "chan"

(* ---- C28 ---- *)

\* thread u was made by threadcreate
Spawned(u) == spawn[u].by # 0

\* fn of thread u has been started and has not returned
FnRunning(u) == Spawned(u) /\ spawn[u].state = "running"

SendRecvOps == {"send", "recv", "nbsend", "nbrecv"}

\* in this step a call of thread t returns: from inside the operation, or from
\* the failed trylock of the call itself
Returns(t) == pc'[t] = "idle" /\ (pc[t] # "idle" \/ budget'[t] # budget[t])

\* C33: a step in which chansend, chanrecv, channbsend or channbrecv returns
\* -1 or 0 changes no count, offset, buffer or closed flag; the fields of a
\* channel change only in a step in which a call on it returns 1 or a
\* chanclose returns; and the value slot of a receive is written only in the
\* step in which that receive returns 1.
C33_FailedOpNoEffect ==
    [][/\ \A t \in Threads :
             /\ Returns(t) /\ op'[t] \in SendRecvOps /\ ret'[t] # 1
                   => /\ chanvars' = chanvars
                      /\ op'[t] \in {"recv", "nbrecv"} => val'[t] = val[t]
             /\ pc[t] # "idle" /\ pc'[t] # "idle" /\ op[t] \in SendRecvOps
                   => val'[t] = val[t]
       /\ chanvars' # chanvars
             => \E t \in Threads :
                   Returns(t) /\ (ret'[t] = 1 \/ op[t] = "close")]_vars

\* a non-blocking send has returned 0 and a blocking receive has returned -1
\* with nothing written into its value slot
C33_Witness ==
    \E t, u \in Threads :
        /\ Returned(t, "nbsend") /\ ret[t] = 0
        /\ Returned(u, "recv") /\ ret[u] = -1 /\ val[u] = Uninit

(* ---- C34 ---- *)

\* the enqueues on channel c since it was first closed
SentSinceClose(c) == Len(sent[c]) - (nclose[c] + Len(atclose[c]))

\* C34: on a closed channel nothing has been enqueued since the close, by
\* chansend, by channbsend or by a send entry of alt, and the count is at most
\* what it was at the close.
C34_NoEnqueueAfterClose ==
    \A c \in AllChans :
        closed[c] => SentSinceClose(c) = 0 /\ nbuf[c] <= Len(atclose[c])

\* alt was suspended in the chansend of its send entry on the full channel A
\* when A was closed, and has returned -1
C34_Witness ==
    /\ closed["A"]
    /\ AltDone(Selector) /\ altret[Selector] = -1
    /\ Entry(Selector, 0) = [c |-> "A", op |-> CHANSND]
    /\ mark[Selector] >= 0

(* ---- C35 ---- *)

\* the threads suspended in a condition wait of channel c
Waiting(c) == {t \in Threads : pc[t] \in {"sendw", "recvw"} /\ ch[t] = c}

\* C35: chanclose sets the flag, wakes both wait sets and unlocks in one
\* critical section, so in every state in which a channel is closed both its
\* wait sets are empty and no thread is suspended in a condition wait on it: a
\* chansend or chanrecv that starts or resumes on a closed channel does not wait.
C35_NoWaitAfterClose ==
    \A c \in AllChans :
        closed[c] => notempty[c] = {} /\ notfull[c] = {} /\ Waiting(c) = {}

\* the channel is closed; a receiver that was suspended has been woken and is
\* about to resume, and a send that started on the closed channel has returned
\* -1 without having waited
C35_Witness ==
    /\ closed["A"]
    /\ \E t \in Threads : pc[t] = "recvr" /\ ch[t] = "A"
    /\ \E u \in Threads : Returned(u, "send") /\ ret[u] = -1 /\ mark[u] = -1

(* ---- C36 ---- *)

\* thread t is outside every channel operation
Outside(t) == pc[t] = "idle"

\* C36: a thread that has returned from chansend, chanrecv, channbsend,
\* channbrecv, chanlen or chanclose, by whatever path, owns no lock, and neither
\* does a thread whose trylock failed, a thread in a condition wait or a thread
\* woken from one that has not yet taken the mutex again: the owner of a lock is
\* always a thread running inside the locked part of an operation.
C36_ReturnReleasesLock ==
    \A c \in AllChans, t \in Threads :
        lock[c] = t =>
            /\ ~Outside(t)
            /\ pc[t] \notin {"sendw", "recvw", "sendr", "recvr"}
            /\ op[t] \in {"send", "recv", "nbsend", "nbrecv", "len", "close"}

\* every lock is free after a chanlen and a chanclose have returned and an alt
\* has returned whose non-blocking operation had failed its trylock
C36_Witness ==
    /\ \A c \in AllChans : lock[c] = 0
    /\ \E t \in Threads : Returned(t, "len")
    /\ \E t \in Threads : Returned(t, "close")
    /\ AltDone(Selector) /\ busy[Selector] # {}

(* ---- C37 ---- *)

\* thread t holds the lock at the test of a receive that would go on to the
\* dequeue, and with it to (off + 1) % bufsize
AboutToDequeue(t) ==
    \/ pc[t] = "recv" /\ ~RecvMustWait(ch[t]) /\ ~RecvClosed(ch[t])
    \/ pc[t] = "nbrecv" /\ ~NbRecvNotReady(ch[t])

\* C37: on a channel created with a capacity of 0 or less the count is 0 in
\* every state, nothing has been received, no chanrecv or channbrecv has
\* returned 1, and no receive is ever at the point of executing the offset
\* advance (off + 1) % bufsize.
C37_NoBufStaysEmpty ==
    \A c \in AllChans :
        bufsize[c] <= 0 =>
            /\ nbuf[c] = 0 /\ off[c] = 0 /\ recvd[c] = <<>>
            /\ \A t \in Threads :
                  ch[t] = c =>
                     /\ ~AboutToDequeue(t)
                     /\ Returned(t, "recv") => ret[t] = -1
                     /\ Returned(t, "nbrecv") => ret[t] = 0

\* on the open channel of negative capacity a channbsend and a channbrecv have
\* returned 0 and a chanrecv is suspended
C37_Witness ==
    \E t, u, w \in Threads :
        /\ bufsize["A"] < 0 /\ ~closed["A"]
        /\ Returned(t, "nbsend") /\ ret[t] = 0
        /\ Returned(u, "nbrecv") /\ ret[u] = 0
        /\ pc[w] = "recvw" /\ w \in notempty["A"]

(* ---- C39 ---- *)

\* the channbsend that thread t has returned from enqueued its element
Enqueued(t) == Count(sent[ch[t]], val[t]) = 1

\* C39: when the channbsend inside cognitive_agent_send_message has returned,
\* cognitive_agent_send_message returns 0 if the message was enqueued and -1
\* if it was not.
C39_DropReported ==
    \A t \in Threads :
        Returned(t, "nbsend") =>
            cognitive_agent_send_message(ret[t]) = (IF Enqueued(t) THEN 0 ELSE -1)

(* ---- C40 ---- *)

\* the entries of the list of thread t that receive
RecvEntries(t) == {j \in 0..(Len(alts[t]) - 2) : Entry(t, j).op = CHANRCV}

\* C40: every receive entry of the list namespace_event_process passes to alt
\* has a value slot, no receive of alt is at its memcpy with a nil destination,
\* and the process has not been ended by a fault.
C40_SlotsNotNil ==
    /\ ~Faulted
    /\ \A t \in Threads :
          /\ \A j \in RecvEntries(t) : Entry(t, j).v # "nil"
          /\ AtCopy(t) => Entry(t, alti[t]).v # "nil"

(* ---- C32 ---- *)

\* thread t is inside alt
InAlt(t) == altpc[t] \in {"scan", "scanw", "block", "blockw"}

\* the operation alt called for entry alti[t] has returned 1 and alt has not
\* yet looked at the result
EntryDone(t) == altpc[t] \in {"scanw", "blockw"} /\ pc[t] = "idle" /\ ret[t] = 1

\* channel c gains one element (n = 1) or loses one (n = -1) in this step
MovesOne(c, n) ==
    /\ nbuf'[c] = nbuf[c] + n
    /\ Len(sent'[c]) = Len(sent[c]) + (IF n = 1 THEN 1 ELSE 0)
    /\ Len(recvd'[c]) = Len(recvd[c]) + (IF n = 1 THEN 0 ELSE 1)
    /\ closed'[c] = closed[c]

\* C32: a step of alt that changes a channel is the successful operation of
\* the entry alt is at: it moves one element on that entry's channel (in for a
\* send, out for a receive) and changes no other channel; after it alt does
\* nothing but return that entry's index; and alt returns the index of a send
\* or receive entry only straight after that operation, in the scan and in
\* the blocking loop alike.  So a call that returns such an index has moved
\* exactly one element, on the channel of the returned entry.
C32_AltMovesOne ==
    [][\A t \in Threads :
          /\ \A c \in AllChans :
                InAlt(t) /\ lock[c] = t /\ Fields(c)' # Fields(c)
                   => /\ c = Entry(t, alti[t]).c
                      /\ pc'[t] = "idle" /\ ret'[t] = 1
                      /\ MovesOne(c, IF Entry(t, alti[t]).op = CHANSND THEN 1 ELSE -1)
                      /\ \A d \in AllChans \ {c} : Fields(d)' = Fields(d)
          /\ EntryDone(t) /\ altpc'[t] # altpc[t]
                => altpc'[t] = "none" /\ altret'[t] = alti[t]
          /\ InAlt(t) /\ altpc'[t] = "none" /\ altret'[t] >= 0
             /\ Entry(t, altret'[t]).op \in {CHANRCV, CHANSND}
                => /\ EntryDone(t)
                   /\ altret'[t] = alti[t]
                   /\ ch[t] = Entry(t, alti[t]).c]_vars

\* in the blocking loop the operation of the second entry has moved an element
\* after the first entry's channel was found closed, and alt is about to return 1
C32_Witness ==
    \E t \in Threads :
        /\ altpc[t] = "blockw" /\ alti[t] = 1 /\ EntryDone(t)
        /\ closed[Entry(t, 0).c]
        /\ MovedSince(t, Entry(t, 1).c) >= 1

(* ---- C31 ---- *)

\* the CHANNOBLK entries of the list of thread t
Marks(t) == {j \in 0..(Len(alts[t]) - 2) : Entry(t, j).op = CHANNOBLK}

\* the first of them
FirstMark(t) == Lowest(Marks(t))

\* C31: alt on a list with a CHANNOBLK entry never goes past the first such
\* entry: it never enters the blocking loop and never suspends; it returns
\* either the index of an earlier send or receive entry whose non-blocking
\* operation succeeded, or the index of the marker; it performs no operation
\* on the channel of a later entry, and when it returns the marker's index
\* with no other thread operating, every channel is as it was at the call.
C31_NoBlockReturns ==
    \A t \in Threads :
        (alts[t] # <<>> /\ Marks(t) # {}) =>
            /\ ~AltFallback(t) /\ ~Suspended(t)
            /\ InAlt(t) => alti[t] <= FirstMark(t)
            /\ \A j \in Entries(t) :
                  (j > FirstMark(t) /\ AltAlone(t)) => SnapSame(t, Entry(t, j).c)
            /\ AltDone(t) =>
                  /\ altret[t] \in 0..FirstMark(t)
                  /\ altret[t] < FirstMark(t) =>
                        Entry(t, altret[t]).op \in {CHANRCV, CHANSND} /\ ret[t] = 1
                  /\ (altret[t] = FirstMark(t) /\ AltAlone(t)) =>
                        \A c \in AllChans : SnapSame(t, c)

\* alt on [receive A, CHANNOBLK] has returned 1 with A open and empty, where
\* the receive alone would have suspended
C31_Witness ==
    \E t \in Threads :
        /\ AltDone(t) /\ altret[t] = 1
        /\ Entry(t, 0) = [c |-> "A", op |-> CHANRCV]
        /\ Entry(t, 1).op = CHANNOBLK
        /\ ~closed["A"] /\ nbuf["A"] = 0

(* ---- C38 ---- *)

\* the blocking operation of entry j of thread t's list can only have failed:
\* its channel is closed and, for a receive, empty
FailedClosed(t, j) ==
    /\ closed[Entry(t, j).c]
    /\ Entry(t, j).op = CHANRCV => nbuf[Entry(t, j).c] = 0

====
